---------------------------- MODULE Spec2Model ----------------------------
(***************************************************************************)
(* Model of the Tengen.ai retrieval pipeline: the corpus directory "data", *)
(* the persisted vector index "db", the loaders, the index build           *)
(* (create_vectorstore), the retrieval chain (create_qa_chain) and the     *)
(* request handlers of backend/api.py and api.py that drive them.          *)
(***************************************************************************)
EXTENDS Integers, Sequences, FiniteSets, TLC

(***************************************************************************)
(* JSON values found in the files of the data directory.  A dict record    *)
(* carries the three content-bearing fields the loader looks at and a      *)
(* title; Absent marks a key the object does not have.                     *)
(***************************************************************************)
Absent == "<absent>"

JMalformed == [kind |-> "malformed"]

JDict(c, t, b, ti) == [kind |-> "dict", content |-> c, text |-> t, body |-> b, title |-> ti]

JScalar(v) == [kind |-> "scalar", val |-> v]

JList(items) == [kind |-> "list", items |-> items]

NoFile == [kind |-> "nofile"]

\* dict.get(key): None when the key is absent; None and "" are both falsy.
Truthy(v) == v # Absent /\ v # ""

\* one "'key': 'value'" entry of Python's str(dict), empty when the key is absent
StrField(key, v, first) ==
    IF v = Absent THEN ""
    ELSE (IF first THEN "" ELSE ", ") \o "'" \o key \o "': '" \o v \o "'"

\* Python's str(x) of a parsed JSON value (rag_pipeline.py:37,40,42,45)
Str(j) ==
    IF j.kind = "scalar" THEN j.val
    ELSE IF j.kind = "dict" THEN
        LET s1 == StrField("content", j.content, TRUE)
            s2 == s1 \o StrField("text", j.text, s1 = "")
            s3 == s2 \o StrField("body", j.body, s2 = "")
            s4 == s3 \o StrField("title", j.title, s3 = "")
        IN "{" \o s4 \o "}"
    ELSE "[...]"

\* item.get('content') or item.get('text') or item.get('body') or str(item)
Resolve(item) ==
    IF Truthy(item.content) THEN item.content
    ELSE IF Truthy(item.text) THEN item.text
    ELSE IF Truthy(item.body) THEN item.body
    ELSE Str(item)

\* the documents one parsed file contributes (backend/rag_pipeline.py:33-45)
RECURSIVE ItemDocs(_)
ItemDocs(items) ==
    IF items = <<>> THEN <<>>
    ELSE LET item == Head(items)
         IN <<(IF item.kind = "dict" THEN Resolve(item) ELSE Str(item))>>
              \o ItemDocs(Tail(items))

FileDocs(j) ==
    IF j.kind = "malformed" THEN <<>>
    ELSE IF j.kind = "list" THEN ItemDocs(j.items)
    ELSE IF j.kind = "dict" THEN <<Resolve(j)>>
    ELSE <<Str(j)>>

(***************************************************************************)
(* The data directory: a file name maps to the parsed content of the file, *)
(* or to NoFile.  os.listdir enumerates the names in the order FileOrder.  *)
(***************************************************************************)
FileOrder == <<"up.json", "notes.txt", "alpha_research.json">>

FileNames == {FileOrder[i] : i \in 1..Len(FileOrder)}

\* filename.endswith('.json')
EndsWithJson(name) ==
    Len(name) >= 5 /\ SubSeq(name, Len(name) - 4, Len(name)) = ".json"

JsonNames == {n \in FileNames : EndsWithJson(n)}

RECURSIVE ListDirFrom(_, _)
ListDirFrom(dir, i) ==
    IF i > Len(FileOrder) THEN <<>>
    ELSE (IF dir[FileOrder[i]] # NoFile THEN <<FileOrder[i]>> ELSE <<>>)
           \o ListDirFrom(dir, i + 1)

\* os.listdir(DATA_PATH)
ListDir(dir) == ListDirFrom(dir, 1)

EmptyDir == [n \in FileNames |-> NoFile]

\* backend/rag_pipeline.py load_documents: every file is read under its own
\* try/except, so a malformed file contributes nothing and the loop goes on.
RECURSIVE LoadFrom(_, _)
LoadFrom(dir, names) ==
    IF names = <<>> THEN <<>>
    ELSE (IF EndsWithJson(Head(names)) THEN FileDocs(dir[Head(names)]) ELSE <<>>)
           \o LoadFrom(dir, Tail(names))

load_documents(exists, dir) ==
    IF ~exists THEN <<>> ELSE LoadFrom(dir, ListDir(dir))

(***************************************************************************)
(* rag_pipeline.py (repository root) load_documents: no try/except, every  *)
(* file must be a list of objects that have a 'content' key.               *)
(***************************************************************************)
\* item['content'] raises KeyError (no such key) or TypeError (not a dict)
ItemRaises(item) == item.kind # "dict" \/ item.content = Absent

\* "for item in data: documents.append(item['content'])" raises
RootFileRaises(j) ==
    \/ j.kind = "malformed"
    \/ j.kind = "scalar" /\ j.val # ""
    \/ j.kind = "dict" /\ Str(j) # "{}"
    \/ j.kind = "list" /\ \E i \in 1..Len(j.items) : ItemRaises(j.items[i])

RECURSIVE RootItemDocs(_)
RootItemDocs(items) ==
    IF items = <<>> THEN <<>>
    ELSE <<Head(items).content>> \o RootItemDocs(Tail(items))

RootFileDocs(j) == IF j.kind = "list" THEN RootItemDocs(j.items) ELSE <<>>

RECURSIVE RootLoadFrom(_, _)
RootLoadFrom(dir, names) ==
    IF names = <<>> THEN [raised |-> FALSE, docs |-> <<>>]
    ELSE IF ~EndsWithJson(Head(names)) THEN RootLoadFrom(dir, Tail(names))
    ELSE IF RootFileRaises(dir[Head(names)]) THEN [raised |-> TRUE, docs |-> <<>>]
    ELSE LET rest == RootLoadFrom(dir, Tail(names))
         IN [raised |-> rest.raised,
             docs |-> IF rest.raised THEN <<>>
                      ELSE RootFileDocs(dir[Head(names)]) \o rest.docs]

root_load_documents(exists, dir) ==
    IF ~exists THEN [raised |-> TRUE, docs |-> <<>>]
    ELSE RootLoadFrom(dir, ListDir(dir))

(***************************************************************************)
(* split_text: RecursiveCharacterTextSplitter(chunk_size=1000,             *)
(* chunk_overlap=100, separators=["\n\n", "\n", " ", ""]).  The texts of   *)
(* this model hold no line break, so the first separator found in a text   *)
(* is " " when the text holds a space and "" (split into characters)       *)
(* otherwise.  The separator is kept at the start of the piece after it,   *)
(* pieces are merged up to chunk_size, and every chunk is stripped.        *)
(***************************************************************************)
chunk_size == 1000

chunk_overlap == 100

\* s.strip()
RECURSIVE Strip(_)
Strip(s) ==
    IF Len(s) = 0 THEN s
    ELSE IF SubSeq(s, 1, 1) = " " THEN Strip(SubSeq(s, 2, Len(s)))
    ELSE IF SubSeq(s, Len(s), Len(s)) = " " THEN Strip(SubSeq(s, 1, Len(s) - 1))
    ELSE s

\* the positions of the separator " " in a text
SpacePos(text) == {i \in 1..Len(text) : SubSeq(text, i, i) = " "}

\* re.split with the separator kept: the text cut before every space after
\* position start
RECURSIVE CutFrom(_, _, _)
CutFrom(text, start, spaces) ==
    LET later == {i \in spaces : i > start}
    IN IF later = {} THEN <<SubSeq(text, start, Len(text))>>
       ELSE LET m == CHOOSE i \in later : \A j \in later : i <= j
            IN <<SubSeq(text, start, m - 1)>> \o CutFrom(text, m, spaces)

\* the pieces of a text that holds a space (empty pieces are dropped)
Pieces(text) == SelectSeq(CutFrom(text, 1, SpacePos(text)), LAMBDA x : x # "")

RECURSIVE JoinPieces(_)
JoinPieces(cur) == IF cur = <<>> THEN "" ELSE Head(cur) \o JoinPieces(Tail(cur))

\* _join_docs: the pieces joined and stripped; None when nothing is left
JoinDocs(cur) ==
    LET t == Strip(JoinPieces(cur)) IN IF t = "" THEN <<>> ELSE <<t>>

\* _merge_splits, the loop that drops pieces from the front of the current
\* chunk until what is kept is no longer than chunk_overlap and the next
\* piece (of length len) fits
RECURSIVE PopWhile(_, _, _)
PopWhile(cur, total, len) ==
    IF total > chunk_overlap \/ (total + len > chunk_size /\ total > 0)
    THEN PopWhile(Tail(cur), total - Len(Head(cur)), len)
    ELSE [cur |-> cur, total |-> total]

\* _merge_splits from piece i on, cur the pieces of the current chunk
RECURSIVE MergeFrom(_, _, _, _)
MergeFrom(splits, i, cur, total) ==
    IF i > Len(splits) THEN JoinDocs(cur)
    ELSE LET d == splits[i]
             len == Len(d)
         IN IF total + len > chunk_size
            THEN IF cur # <<>>
                 THEN LET kept == PopWhile(cur, total, len)
                      IN JoinDocs(cur)
                           \o MergeFrom(splits, i + 1, Append(kept.cur, d), kept.total + len)
                 ELSE MergeFrom(splits, i + 1, <<d>>, len)
            ELSE MergeFrom(splits, i + 1, Append(cur, d), total + len)

MergeSplits(splits) == MergeFrom(splits, 1, <<>>, 0)

\* _merge_splits over the characters of a text: windows of chunk_size
\* characters, each beginning chunk_overlap before the end of the one before
RECURSIVE Windows(_, _)
Windows(text, start) ==
    IF start + chunk_size - 1 >= Len(text) THEN <<SubSeq(text, start, Len(text))>>
    ELSE <<SubSeq(text, start, start + chunk_size - 1)>>
           \o Windows(text, start + chunk_size - chunk_overlap)

RECURSIVE StripAll(_)
StripAll(chunks) ==
    IF chunks = <<>> THEN <<>>
    ELSE (IF Strip(Head(chunks)) = "" THEN <<>> ELSE <<Strip(Head(chunks))>>)
           \o StripAll(Tail(chunks))

\* _split_text with the separator "": the text split into characters and merged
CharChunks(text) == IF text = "" THEN <<>> ELSE StripAll(Windows(text, 1))

\* _split_text over the pieces: pieces shorter than chunk_size are collected
\* and merged, a longer piece is split again with the separator ""
RECURSIVE SplitFrom(_, _, _)
SplitFrom(pieces, i, good) ==
    IF i > Len(pieces) THEN MergeSplits(good)
    ELSE IF Len(pieces[i]) < chunk_size
    THEN SplitFrom(pieces, i + 1, Append(good, pieces[i]))
    ELSE MergeSplits(good) \o CharChunks(pieces[i]) \o SplitFrom(pieces, i + 1, <<>>)

\* text_splitter.split_text(text): the chunks of one document
SplitDoc(text) ==
    IF SpacePos(text) = {} THEN CharChunks(text)
    ELSE SplitFrom(Pieces(text), 1, <<>>)

\* create_documents(documents): the chunks of every document, in order
RECURSIVE split_text(_)
split_text(documents) ==
    IF documents = <<>> THEN <<>>
    ELSE SplitDoc(Head(documents)) \o split_text(Tail(documents))

(***************************************************************************)
(* The persisted index is the Chroma collection under DB_PATH: the         *)
(* sequence of stored chunks in insertion order.  Retrieval embeds the     *)
(* query and the chunks with the same deterministic embedding and ranks    *)
(* the chunks by similarity.                                               *)
(***************************************************************************)
Range(s) == {s[i] : i \in 1..Len(s)}

\* kw in s
Contains(s, kw) ==
    \E i \in 1..(Len(s) - Len(kw) + 1) : SubSeq(s, i, i + Len(kw) - 1) = kw

\* similarity of a chunk to a query under the (deterministic) embedding
Similarity(q, c) ==
    IF c = q THEN 3
    ELSE IF Contains(q, c) \/ Contains(c, q) THEN 2
    ELSE IF Len(c) = Len(q) THEN 1
    ELSE 0

\* position of the best-scoring chunk not yet taken (earliest on a tie)
Best(idx, q, taken) ==
    CHOOSE i \in (1..Len(idx)) \ taken :
        \A j \in (1..Len(idx)) \ taken :
            \/ Similarity(q, idx[i]) > Similarity(q, idx[j])
            \/ Similarity(q, idx[i]) = Similarity(q, idx[j]) /\ i <= j

RECURSIVE TopFrom(_, _, _, _)
TopFrom(idx, q, k, taken) ==
    IF k = 0 \/ Cardinality(taken) = Len(idx) THEN <<>>
    ELSE LET i == Best(idx, q, taken)
         IN <<idx[i]>> \o TopFrom(idx, q, k - 1, taken \cup {i})

\* vectordb.similarity_search(query, k): the k nearest chunks, nearest first
similarity_search(idx, q, k) == TopFrom(idx, q, k, {})

\* search_kwargs={"k": 5} of the backend retriever
RetrieverK == 5

\* a retriever that passes no k bound to the store
RetrieveAll(idx, q) == similarity_search(idx, q, Len(idx))

\* the retriever create_qa_chain builds (backend/rag_pipeline.py:119-125)
Retrieve(idx, q) == similarity_search(idx, q, RetrieverK)

\* create_qa_chain: None without GOOGLE_API_KEY or without the db directory,
\* otherwise a chain over the collection persisted under DB_PATH
create_qa_chain(key, dbdir) == key /\ dbdir

(***************************************************************************)
(* String helpers of the handlers.                                         *)
(***************************************************************************)
\* s.replace(old, new)
RECURSIVE Replace(_, _, _)
Replace(s, old, new) ==
    IF Len(s) < Len(old) THEN s
    ELSE IF SubSeq(s, 1, Len(old)) = old
         THEN new \o Replace(SubSeq(s, Len(old) + 1, Len(s)), old, new)
         ELSE SubSeq(s, 1, 1) \o Replace(SubSeq(s, 2, Len(s)), old, new)

\* an excerpt that does not cut the chunk
ExcerptWhole(c) == c \o "..."

\* doc.page_content[:200] + "..." (backend/rag_pipeline.py:156)
Excerpt(c) == SubSeq(c, 1, IF Len(c) < 200 THEN Len(c) ELSE 200) \o "..."

RECURSIVE Excerpts(_)
Excerpts(docs) ==
    IF docs = <<>> THEN <<>> ELSE <<Excerpt(Head(docs))>> \o Excerpts(Tail(docs))

\* backend/api.py chat_endpoint: the prompt (lower case here) holds a keyword
research_keywords ==
    {"what is", "tell me about", "explain", "research", "find information", "learn about"}

is_research_query(prompt) == \E kw \in research_keywords : Contains(prompt, kw)

\* prompt.replace("what is", "").replace("tell me about", "").replace("explain", "").strip()
ChatTopic(prompt) ==
    Strip(Replace(Replace(Replace(prompt, "what is", ""), "tell me about", ""), "explain", ""))

\* WebScraper.save_results: data/<topic with _ for spaces>_research.json
ResearchFile(topic) == Replace(topic, " ", "_") \o "_research.json"

\* one successful scrape result as it is stored in the saved JSON list
ScrapeRecord(content) == JDict(content, Absent, Absent, "page")

RECURSIVE ScrapeRecords(_)
ScrapeRecords(contents) ==
    IF contents = <<>> THEN <<>>
    ELSE <<ScrapeRecord(Head(contents))>> \o ScrapeRecords(Tail(contents))

\* the query research_topic puts to the chain (backend/api.py:163-165)
ResearchQuery(topic) == "Based on the research about " \o topic

(***************************************************************************)
(* State.  The server processes work in one directory and share "data"     *)
(* and "db": api1 and api2 are worker processes of backend/api.py, svc is  *)
(* the inference service that calls query_documents, root is the api.py    *)
(* server of the repository root.                                          *)
(***************************************************************************)
ApiProcs == {"api1", "api2"}

Procs == ApiProcs \cup {"svc", "root"}

\* request.client.host, "unknown" for a request without a client address
Clients == {"10.0.0.1", "unknown"}

VARIABLES
    data_exists,  \* the directory "data" exists
    data,         \* file name -> parsed content of the file, or NoFile
    db_exists,    \* the directory "db" (DB_PATH) exists
    index,        \* the chunks of the collection persisted under DB_PATH
    api_key,      \* GOOGLE_API_KEY is set in the environment
    pc,           \* per process: "down", "idle", "build" (inside
                  \* Chroma.from_documents), "tail" (after create_vectorstore)
    op,           \* per process: the handler it is running
    arg,          \* per process: the query or prompt of that handler
    texts,        \* per process: the chunks handed to create_vectorstore
    todo,         \* per process: the chunks from_documents has yet to add
    prior,        \* per process: the index when the handler's build began
    built,        \* per process: outcome of create_vectorstore
    raced,        \* per process: another build overlapped this one
    qa_chain,     \* per process: the module global qa_chain is set
    resp,         \* the response of the handler that ended last
    obs,          \* the retrieval of the handler that ended last
    loaded,       \* input and result of the last direct call of a function
    ingested,     \* per process: a build of this process has succeeded since
                  \* the process started
    requests,     \* RateLimitMiddleware.requests: client -> admission times
    now,          \* time.time(), in seconds
    admitted,     \* per client: the times of the requests the middleware
                  \* passed on to the application
    outside,      \* the paths outside the data directory that were written
    logs,         \* the directory "logs": whether it exists, and for each log
                  \* file whether it exists and its lines
    model_loaded  \* InferenceService.model_loaded

fsVars == <<data_exists, data, db_exists, index>>

localVars == <<op, arg, texts, todo, prior, built, raced>>

limVars == <<requests, now, admitted>>

sideVars == <<limVars, outside, logs, model_loaded>>

vars == <<fsVars, api_key, pc, localVars, qa_chain, resp, obs, loaded, ingested,
          sideVars>>

\* the response carries no count of results
NoCount == -1

NoResp == [op |-> "", built |-> "none", code |-> 0, status |-> "", answer |-> "",
           sources |-> <<>>, count |-> NoCount]

NoObs == [q |-> "", seen |-> <<>>, docs |-> <<>>, builders |-> {},
          clean |-> FALSE, prior |-> <<>>, target |-> <<>>]

NotLoaded == [fn |-> "", raised |-> FALSE, docs |-> <<>>]

\* status code, status field, kind of answer, sources of a response
Reply(code, status, answer, sources) ==
    [code |-> code, status |-> status, answer |-> answer, sources |-> sources,
     count |-> NoCount]

\* the processes that are inside Chroma.from_documents
Builders == {r \in Procs : pc[r] = "build"}

\* no handler is running
Quiet == \A r \in Procs : pc[r] \in {"down", "idle"}

\* no worker of backend/api.py is started, no handler has run
InitHandlers ==
    /\ pc = [p \in Procs |-> IF p \in ApiProcs THEN "down" ELSE "idle"]
    /\ op = [p \in Procs |-> ""]
    /\ arg = [p \in Procs |-> ""]
    /\ texts = [p \in Procs |-> <<>>]
    /\ todo = [p \in Procs |-> <<>>]
    /\ prior = [p \in Procs |-> <<>>]
    /\ built = [p \in Procs |-> "none"]
    /\ raced = [p \in Procs |-> FALSE]
    /\ qa_chain = [p \in Procs |-> FALSE]
    /\ resp = NoResp
    /\ obs = NoObs
    /\ ingested = [p \in Procs |-> FALSE]
    /\ requests = [c \in {} |-> <<>>]
    /\ now = 0
    /\ admitted = [c \in Clients |-> <<>>]
    /\ outside = {}

\* the log file names, in the order get_logs reads them
LogNames == <<"tengen.log", "tengen_access.log", "tengen_errors.log">>

NoLogFile == [exists |-> FALSE, lines |-> <<>>]

NoLogs == [exists |-> FALSE,
           files |-> [n \in {LogNames[i] : i \in 1..Len(LogNames)} |-> NoLogFile]]

InitProcs ==
    /\ InitHandlers
    /\ loaded = NotLoaded
    /\ logs = NoLogs
    /\ model_loaded = FALSE

\* a fresh checkout: no data directory, no db directory
Init ==
    /\ data_exists = FALSE
    /\ data = EmptyDir
    /\ db_exists = FALSE
    /\ index = <<>>
    /\ api_key \in BOOLEAN
    /\ InitProcs

(***************************************************************************)
(* What a retrieval through the chain sees.  The chain reads the           *)
(* collection under DB_PATH as it is at the time of the query.  The        *)
(* history fields say whether exactly one build was in flight then, and    *)
(* give the index before that build and the index that build produces.     *)
(***************************************************************************)
Observation(q) ==
    LET one == Cardinality(Builders) = 1
        b == CHOOSE r \in Builders : TRUE
        clean == one /\ ~raced[b]
    IN [q |-> q, seen |-> index, docs |-> Retrieve(index, q),
        builders |-> Builders, clean |-> clean,
        prior |-> IF clean THEN prior[b] ELSE <<>>,
        target |-> IF clean THEN prior[b] \o texts[b] ELSE <<>>]

\* qa_chain({"query": q}): retrieval, then generation, which may fail
ChainReply(q, llm_ok, status) ==
    IF llm_ok THEN Reply(200, status, "generated", Retrieve(index, q))
    ELSE Reply(500, "error", "", <<>>)

\* a handler's result: the global qa_chain, the reply, the retrieval made
Result(qa, reply, ob) == [qa |-> qa, reply |-> reply, obs |-> ob]

\* backend/api.py chat_endpoint, "Generate response": through the chain when
\* the global qa_chain is set, otherwise generate_code
ChatAnswer(prompt, qa, llm_ok) ==
    IF qa
    THEN Result(TRUE, ChainReply(prompt, llm_ok, "stream"), Observation(prompt))
    ELSE Result(FALSE, Reply(200, "stream", "code", <<>>), NoObs)

\* scrape_result["results_count"]: the number of results the scrape of the
\* topic kept, which are the records of the file save_results wrote in dir
results_count(topic, dir) ==
    LET f == dir[ResearchFile(topic)]
    IN IF f.kind = "list" THEN Len(f.items) ELSE NoCount

\* the "completed" response of /research carries results_count
Counted(reply, n) == IF reply.code = 200 THEN [reply EXCEPT !.count = n] ELSE reply

(***************************************************************************)
(* The part of each handler that follows create_vectorstore: what it sets  *)
(* the global qa_chain to, what it answers, what it retrieves.  dbx: the   *)
(* db directory exists by then.                                            *)
(***************************************************************************)
TailOf(p, o, a, llm_ok, dbx) ==
    LET qa == create_qa_chain(api_key, dbx)
    IN CASE o = "lifespan" -> Result(qa, Reply(0, "", "", <<>>), NoObs)
         [] o = "research" ->
              IF qa
              THEN Result(TRUE,
                          Counted(ChainReply(ResearchQuery(a), llm_ok, "completed"),
                                  results_count(a, data')),
                          Observation(ResearchQuery(a)))
              ELSE Result(FALSE,
                          Counted(Reply(200, "completed", "summary", <<>>),
                                  results_count(a, data')),
                          NoObs)
         [] o = "upload" ->
              Result(qa_chain[p], Reply(200, "processed", "", <<>>), NoObs)
         [] o = "chat" -> ChatAnswer(a, qa, llm_ok)
         [] OTHER -> Result(qa_chain[p], Reply(500, "error", "", <<>>), NoObs)

(***************************************************************************)
(* create_vectorstore(texts) with texts not empty enters                   *)
(* Chroma.from_documents(persist_directory=DB_PATH), which adds the chunks *)
(* to the collection already persisted there, batch after batch.           *)
(***************************************************************************)
EnterBuild(p, o, a, txts) ==
    /\ pc' = [pc EXCEPT ![p] = "build"]
    /\ op' = [op EXCEPT ![p] = o]
    /\ arg' = [arg EXCEPT ![p] = a]
    /\ texts' = [texts EXCEPT ![p] = txts]
    /\ todo' = [todo EXCEPT ![p] = txts]
    /\ prior' = [prior EXCEPT ![p] = index]
    /\ built' = [built EXCEPT ![p] = "building"]
    /\ raced' = [r \in Procs |-> IF r = p THEN Builders # {}
                                 ELSE IF r \in Builders THEN TRUE ELSE raced[r]]
    /\ resp' = NoResp
    /\ obs' = NoObs
    /\ UNCHANGED <<qa_chain, ingested>>

\* the handler o of process p ends: b is the outcome of create_vectorstore
\* ("none": not called, "empty": it returned None for no texts), t the result
EndHandler(p, o, b, t) ==
    /\ pc' = [pc EXCEPT ![p] = "idle"]
    /\ op' = [op EXCEPT ![p] = ""]
    /\ arg' = [arg EXCEPT ![p] = ""]
    /\ texts' = [texts EXCEPT ![p] = <<>>]
    /\ todo' = [todo EXCEPT ![p] = <<>>]
    /\ prior' = [prior EXCEPT ![p] = <<>>]
    /\ built' = [built EXCEPT ![p] = "none"]
    /\ raced' = [raced EXCEPT ![p] = FALSE]
    /\ qa_chain' = [qa_chain EXCEPT ![p] = t.qa]
    /\ resp' = [op |-> o, built |-> b] @@ t.reply
    /\ obs' = t.obs
    /\ ingested' = [ingested EXCEPT ![p] = @ \/ b = "ok"]

\* a reply that leaves the global qa_chain alone and retrieves nothing
Plain(p, reply) == Result(qa_chain[p], reply, NoObs)

\* documents = load_documents(); if documents: texts = split_text(documents);
\* create_vectorstore(texts); ... (the handlers of backend/api.py).
\* dbx: the db directory exists when create_vectorstore is called
Pipeline(p, o, a, docs, llm_ok, dbx) ==
    LET txts == split_text(docs)
    IN IF txts # <<>>
       THEN /\ EnterBuild(p, o, a, txts)
            /\ db_exists' = TRUE
       ELSE /\ EndHandler(p, o, "empty", TailOf(p, o, a, llm_ok, dbx))
            /\ db_exists' = dbx

\* one batch of from_documents reaches the persisted collection
WriteBatch(p) ==
    /\ pc[p] = "build"
    /\ \E n \in 1..Len(todo[p]) :
          /\ index' = index \o SubSeq(todo[p], 1, n)
          /\ todo' = [todo EXCEPT ![p] = SubSeq(todo[p], n + 1, Len(todo[p]))]
          /\ IF n = Len(todo[p])
             THEN /\ pc' = [pc EXCEPT ![p] = "tail"]
                  /\ built' = [built EXCEPT ![p] = "ok"]
             ELSE UNCHANGED <<pc, built>>
    /\ UNCHANGED <<data_exists, data, db_exists, api_key, op, arg, texts, prior,
                   raced, qa_chain, resp, obs, loaded, ingested, sideVars>>

\* the embedding or the store raises inside from_documents: in the backend
\* create_vectorstore catches it and returns None
BuildFails(p) ==
    /\ pc[p] = "build"
    /\ pc' = [pc EXCEPT ![p] = "tail"]
    /\ built' = [built EXCEPT ![p] = "failed"]
    /\ todo' = [todo EXCEPT ![p] = <<>>]
    /\ UNCHANGED <<fsVars, api_key, op, arg, texts, prior, raced, qa_chain,
                   resp, obs, loaded, ingested, sideVars>>

\* the rest of the handler after create_vectorstore has returned
Finish(p, llm_ok) ==
    /\ pc[p] = "tail"
    /\ UNCHANGED <<fsVars, api_key, loaded, sideVars>>
    /\ EndHandler(p, op[p], built[p], TailOf(p, op[p], arg[p], llm_ok, db_exists))

(***************************************************************************)
(* backend/api.py                                                          *)
(***************************************************************************)
\* lifespan: startup of a worker process
lifespan(p) ==
    /\ pc[p] = "down"
    /\ data_exists' = TRUE
    /\ UNCHANGED <<data, index, api_key, loaded, sideVars>>
    /\ LET docs == load_documents(TRUE, data)
       IN IF ListDir(data) # <<>> /\ docs # <<>>
          THEN Pipeline(p, "lifespan", "", docs, TRUE, TRUE)
          ELSE /\ EndHandler(p, "lifespan", "none", Plain(p, Reply(0, "", "", <<>>)))
               /\ db_exists' = TRUE

\* POST /research: results is what the scrape kept (empty: status "error")
research_topic(p, topic, results, llm_ok) ==
    /\ pc[p] = "idle"
    /\ UNCHANGED <<index, api_key, loaded, sideVars>>
    /\ IF results = <<>>
       THEN /\ EndHandler(p, "research", "none", Plain(p, Reply(200, "error", "", <<>>)))
            /\ UNCHANGED <<data_exists, data, db_exists>>
       ELSE /\ data_exists' = TRUE
            /\ data' = [data EXCEPT ![ResearchFile(topic)] = JList(ScrapeRecords(results))]
            /\ LET docs == load_documents(TRUE, data')
               IN IF docs # <<>>
                  THEN Pipeline(p, "research", topic, docs, llm_ok, db_exists)
                  ELSE /\ EndHandler(p, "research", "none",
                                     Plain(p, Reply(500, "error", "", <<>>)))
                       /\ UNCHANGED db_exists

\* the first position of sep in s from position i on, 0 when there is none
RECURSIVE FindFrom(_, _, _)
FindFrom(s, sep, i) ==
    IF i + Len(sep) - 1 > Len(s) THEN 0
    ELSE IF SubSeq(s, i, i + Len(sep) - 1) = sep THEN i
    ELSE FindFrom(s, sep, i + 1)

\* the first position of sep in s, 0 when s does not hold it
Find(s, sep) == FindFrom(s, sep, 1)

\* s.split(sep, maxsplit); maxsplit = -1: no limit
RECURSIVE Split(_, _, _)
Split(s, sep, maxsplit) ==
    LET i == Find(s, sep)
    IN IF maxsplit = 0 \/ i = 0 THEN <<s>>
       ELSE <<SubSeq(s, 1, i - 1)>>
            \o Split(SubSeq(s, i + Len(sep), Len(s)), sep,
                     IF maxsplit < 0 THEN maxsplit ELSE maxsplit - 1)

\* os.path.join("data", filename): an absolute filename replaces "data"
file_path(filename) ==
    IF Len(filename) > 0 /\ SubSeq(filename, 1, 1) = "/" THEN filename
    ELSE "data/" \o filename

\* the place a path names: abs for a path from the root, else from the
\* working directory; parts are the directories walked and the last name,
\* with "." and "" dropped and ".." taken ("..": above the working directory)
RECURSIVE Walk(_, _)
Walk(names, at) ==
    IF names = <<>> THEN at
    ELSE LET n == Head(names)
             up == IF at.parts = <<>> \/ at.parts[Len(at.parts)] = ".."
                   THEN IF at.abs THEN at ELSE [at EXCEPT !.parts = @ \o <<"..">>]
                   ELSE [at EXCEPT !.parts = SubSeq(@, 1, Len(@) - 1)]
         IN Walk(Tail(names),
                 IF n \in {"", "."} THEN at
                 ELSE IF n = ".." THEN up
                 ELSE [at EXCEPT !.parts = @ \o <<n>>])

Place(path) ==
    Walk(Split(path, "/", -1),
         [abs |-> Len(path) > 0 /\ SubSeq(path, 1, 1) = "/", parts |-> <<>>])

\* the directories that exist: the working directory, its parent, the root,
\* /tmp, and "data" once it is made
Dirs ==
    {[abs |-> FALSE, parts |-> <<>>], [abs |-> FALSE, parts |-> <<"..">>],
     [abs |-> TRUE, parts |-> <<>>], [abs |-> TRUE, parts |-> <<"tmp">>]}
    \cup (IF data_exists THEN {[abs |-> FALSE, parts |-> <<"data">>]} ELSE {})

\* open(path, "wb") succeeds for the path that names the place t: it does
\* not end in a directory name, t is no directory and the directory t lies
\* in exists
CanOpen(path, t) ==
    /\ Len(path) > 0
    /\ SubSeq(path, Len(path), Len(path)) # "/"
    /\ SubSeq(path, Len(path) - 1, Len(path)) # "/."
    /\ SubSeq(path, Len(path) - 2, Len(path)) # "/.."
    /\ t.parts # <<>>
    /\ t \notin Dirs
    /\ [t EXCEPT !.parts = SubSeq(@, 1, Len(@) - 1)] \in Dirs

\* the place is a file of the data directory
InData(t) == ~t.abs /\ Len(t.parts) = 2 /\ t.parts[1] = "data"

\* POST /files/upload
upload_file(p, name, content) ==
    /\ pc[p] = "idle"
    /\ UNCHANGED <<data_exists, index, api_key, loaded, limVars, logs, model_loaded>>
    /\ \E t \in {Place(file_path(name))} :
       IF ~CanOpen(file_path(name), t)
       THEN /\ EndHandler(p, "upload", "none", Plain(p, Reply(500, "error", "", <<>>)))
            /\ UNCHANGED <<data, db_exists, outside>>
       ELSE /\ IF InData(t)
               THEN /\ data' = [data EXCEPT ![t.parts[2]] = content]
                    /\ UNCHANGED outside
               ELSE /\ outside' = outside \cup {t}
                    /\ UNCHANGED data
            /\ IF EndsWithJson(name)
               THEN LET docs == load_documents(TRUE, data')
                    IN IF docs # <<>>
                       THEN Pipeline(p, "upload", name, docs, TRUE, db_exists)
                       ELSE /\ EndHandler(p, "upload", "none",
                                          Plain(p, Reply(200, "processed", "", <<>>)))
                            /\ UNCHANGED db_exists
               ELSE /\ EndHandler(p, "upload", "none",
                                  Plain(p, Reply(200, "uploaded", "", <<>>)))
                    /\ UNCHANGED db_exists

\* POST /chat: a research prompt with no chain yet scrapes and ingests first
chat_endpoint(p, prompt, results, llm_ok) ==
    /\ pc[p] = "idle"
    /\ UNCHANGED <<index, api_key, loaded, sideVars>>
    /\ IF is_research_query(prompt) /\ ~qa_chain[p] /\ results # <<>>
       THEN /\ data_exists' = TRUE
            /\ data' = [data EXCEPT ![ResearchFile(ChatTopic(prompt))] =
                                       JList(ScrapeRecords(results))]
            /\ LET docs == load_documents(TRUE, data')
               IN IF docs # <<>>
                  THEN Pipeline(p, "chat", prompt, docs, llm_ok, db_exists)
                  ELSE /\ EndHandler(p, "chat", "none",
                                     ChatAnswer(prompt, qa_chain[p], llm_ok))
                       /\ UNCHANGED db_exists
       ELSE /\ EndHandler(p, "chat", "none", ChatAnswer(prompt, qa_chain[p], llm_ok))
            /\ UNCHANGED <<data_exists, data, db_exists>>

\* a worker process is stopped and started again
restart(p) ==
    /\ pc[p] = "idle"
    /\ pc' = [pc EXCEPT ![p] = "down"]
    /\ qa_chain' = [qa_chain EXCEPT ![p] = FALSE]
    /\ ingested' = [ingested EXCEPT ![p] = FALSE]
    /\ UNCHANGED <<fsVars, api_key, localVars, resp, obs, loaded, sideVars>>

(***************************************************************************)
(* backend/rag_pipeline.py query_documents, as the inference service calls *)
(* it (no chain passed in).                                                *)
(***************************************************************************)
query_documents(p, question, llm_ok) ==
    /\ pc[p] = "idle"
    /\ UNCHANGED <<fsVars, api_key, loaded, sideVars>>
    /\ IF ~create_qa_chain(api_key, db_exists)
       THEN EndHandler(p, "query", "none", Plain(p, Reply(200, "", "nodocs", <<>>)))
       ELSE EndHandler(p, "query", "none",
                       Result(qa_chain[p],
                              IF llm_ok
                              THEN Reply(200, "", "generated",
                                         Excerpts(Retrieve(index, question)))
                              ELSE Reply(200, "", "error", <<>>),
                              Observation(question)))

(***************************************************************************)
(* api.py (repository root): /ask and the question branch of /chat run the *)
(* whole pipeline of rag_pipeline.py on every call.  Its create_qa_chain   *)
(* passes return_source_docuents, so no "source_documents" comes back and  *)
(* the handler ends in its except branch with status 500.                  *)
(***************************************************************************)
RootPipeline(p, o, q, nodata) ==
    LET r == root_load_documents(data_exists, data)
        txts == split_text(r.docs)
    IN IF r.raised
       THEN /\ EndHandler(p, o, "none", Plain(p, Reply(500, "error", "", <<>>)))
            /\ UNCHANGED db_exists
       ELSE IF r.docs = <<>>
       THEN /\ EndHandler(p, o, "none", Plain(p, nodata))
            /\ UNCHANGED db_exists
       ELSE IF txts = <<>>
       THEN /\ EndHandler(p, o, "empty", Plain(p, Reply(500, "error", "", <<>>)))
            /\ db_exists' = TRUE
       ELSE /\ EnterBuild(p, o, q, txts)
            /\ db_exists' = TRUE

\* POST /ask: the 404 raised for no documents is caught by the handler's own
\* "except Exception" and leaves as a 500
ask_question(p, query) ==
    /\ pc[p] = "idle"
    /\ UNCHANGED <<data_exists, data, index, api_key, loaded, sideVars>>
    /\ RootPipeline(p, "ask", query, Reply(500, "error", "", <<>>))

\* user_message.replace("scrape", "").replace("research", "").strip()
ScrapeTopic(message) == Strip(Replace(Replace(message, "scrape", ""), "research", ""))

\* an HTTPException(400, detail) raised inside the try block of chat: the
\* handler's "except Exception" catches it and raises status 500 with
\* str(e) as detail
Caught(detail) == Reply(500, "error", detail, <<>>)

\* POST /chat {"message": message, "code": code}, message in lower case.  A
\* scrape request that names a topic runs the scrapy subprocess and is not
\* taken here.
chat(p, message, code) ==
    /\ pc[p] = "idle"
    /\ UNCHANGED <<data_exists, data, index, api_key, loaded, sideVars>>
    /\ IF message = ""
       THEN /\ EndHandler(p, "root_chat", "none", Plain(p, Caught("Message is required.")))
            /\ UNCHANGED db_exists
       ELSE IF Contains(message, "debug")
       THEN /\ EndHandler(p, "root_chat", "none",
                          Plain(p, IF code = ""
                                   THEN Caught("Code is required for debugging.")
                                   ELSE Reply(200, "", "debug", <<>>)))
            /\ UNCHANGED db_exists
       ELSE IF Contains(message, "code") \/ Contains(message, "generate")
       THEN /\ EndHandler(p, "root_chat", "none", Plain(p, Reply(200, "", "code", <<>>)))
            /\ UNCHANGED db_exists
       ELSE IF Contains(message, "scrape") \/ Contains(message, "research")
       THEN /\ ScrapeTopic(message) = ""
            /\ EndHandler(p, "root_chat", "none",
                          Plain(p, Caught("Please specify a topic to scrape.")))
            /\ UNCHANGED db_exists
       ELSE RootPipeline(p, "root_chat", message, Reply(200, "", "nodata", <<>>))

(***************************************************************************)
(* Direct calls of the two loaders on the data directory.                  *)
(***************************************************************************)
CallLoad ==
    /\ loaded' = [fn |-> "backend", raised |-> FALSE,
                  docs |-> load_documents(data_exists, data)]
    /\ data_exists' = TRUE
    /\ UNCHANGED <<data, db_exists, index, api_key, pc, localVars, qa_chain, resp, obs,
                   ingested, sideVars>>

CallRootLoad ==
    /\ loaded' = [fn |-> "root"] @@ root_load_documents(data_exists, data)
    /\ UNCHANGED <<fsVars, api_key, pc, localVars, qa_chain, resp, obs, ingested,
                   sideVars>>

(***************************************************************************)
(* backend/api/routes/logs.py.  A log file is the sequence of its lines,   *)
(* oldest first.  What the handlers themselves write to the log is left    *)
(* out.                                                                    *)
(***************************************************************************)
Uppers == "ABCDEFGHIJKLMNOPQRSTUVWXYZ"

Lowers == "abcdefghijklmnopqrstuvwxyz"

\* s.lower()
RECURSIVE Lower(_)
Lower(s) ==
    IF s = "" THEN ""
    ELSE LET c == SubSeq(s, 1, 1)
             i == Find(Uppers, c)
         IN (IF i = 0 THEN c ELSE SubSeq(Lowers, i, i)) \o Lower(SubSeq(s, 2, Len(s)))

\* s[k:] of Python
SliceFrom(s, k) ==
    LET start == IF k < 0 THEN (IF Len(s) + k < 0 THEN 0 ELSE Len(s) + k)
                 ELSE (IF k > Len(s) THEN Len(s) ELSE k)
    IN SubSeq(s, start + 1, Len(s))

\* the loop of _read_log_file: blank lines and lines with fewer than four
\* parts give no entry, nor do lines of another level when level is given
RECURSIVE LogEntries(_, _)
LogEntries(lines, level) ==
    IF lines = <<>> THEN <<>>
    ELSE LET line == Strip(Head(lines))
             parts == Split(line, " - ", 3)
             keep == /\ line # ""
                     /\ Len(parts) >= 4
                     /\ ~(Truthy(level) /\ Lower(parts[3]) # Lower(level))
         IN (IF keep
             THEN <<[timestamp |-> parts[1], level |-> parts[3], message |-> parts[4],
                     source |-> parts[2]]>>
             ELSE <<>>)
            \o LogEntries(Tail(lines), level)

\* _read_log_file(filepath, lines, level)
read_log_file(file_lines, lines, level) ==
    LogEntries(IF Len(file_lines) > lines THEN SliceFrom(file_lines, -lines)
               ELSE file_lines,
               level)

\* the file a log type names, "" for any other type
LogFileOf(log_type) ==
    CASE log_type = "access" -> "tengen_access.log"
      [] log_type = "error" -> "tengen_errors.log"
      [] log_type = "main" -> "tengen.log"
      [] OTHER -> ""

\* the loop of get_logs over the three files, from the i-th on
RECURSIVE AllLogs(_, _, _)
AllLogs(i, lines, level) ==
    IF i > Len(LogNames) THEN <<>>
    ELSE (IF logs.files[LogNames[i]].exists
          THEN read_log_file(logs.files[LogNames[i]].lines, lines \div 3, level)
          ELSE <<>>)
         \o AllLogs(i + 1, lines, level)

\* the call made last and its response
Called(fn, req, code, detail, body) ==
    [fn |-> fn, req |-> req, code |-> code, detail |-> detail, body |-> body]

\* GET /logs
get_logs(log_type, lines, level) ==
    LET req == [log_type |-> log_type, lines |-> lines, level |-> level]
        name == LogFileOf(log_type)
        entries ==
            IF ~logs.exists THEN <<>>
            ELSE IF name = "" THEN SliceFrom(AllLogs(1, lines, level), -lines)
            ELSE IF ~logs.files[name].exists THEN <<>>
            ELSE read_log_file(logs.files[name].lines, lines, level)
    IN /\ loaded' = Called("get_logs", req, 200, "", entries)
       /\ UNCHANGED <<fsVars, api_key, pc, localVars, qa_chain, resp, obs, ingested,
                      sideVars>>

\* the HTTPException a handler raises inside its try block reaches its
\* "except Exception", which raises status 500 in its place
Reraised(fn, req, detail) == Called(fn, req, 500, detail, <<>>)

\* GET /logs/download
download_logs(log_type) ==
    LET req == [log_type |-> log_type]
        name == LogFileOf(log_type)
    IN /\ loaded' =
              IF log_type = "all" THEN Called("download_logs", req, 200, "", <<>>)
              ELSE IF name = "" THEN Reraised("download_logs", req, "Invalid log type")
              ELSE IF ~(logs.exists /\ logs.files[name].exists)
              THEN Reraised("download_logs", req, "Log file not found")
              ELSE Called("download_logs", req, 200, "", logs.files[name].lines)
       /\ UNCHANGED <<fsVars, api_key, pc, localVars, qa_chain, resp, obs, ingested,
                      sideVars>>

\* open(filepath, 'w').close() for the files in names that exist
Cleared(names) ==
    [logs EXCEPT !.files = [n \in DOMAIN @ |->
                               IF n \in names /\ @[n].exists
                               THEN [exists |-> TRUE, lines |-> <<>>] ELSE @[n]]]

\* DELETE /logs
clear_logs(log_type) ==
    LET req == [log_type |-> log_type]
        name == LogFileOf(log_type)
        names == IF log_type = "all" THEN DOMAIN logs.files ELSE {name}
        bad == logs.exists /\ log_type # "all" /\ name = ""
    IN /\ loaded' = IF bad THEN Reraised("clear_logs", req, "Invalid log type")
                    ELSE Called("clear_logs", req, 200, "", <<>>)
       /\ logs' = IF logs.exists /\ ~bad THEN Cleared(names) ELSE logs
       /\ UNCHANGED <<fsVars, api_key, pc, localVars, qa_chain, resp, obs, ingested,
                      limVars, outside, model_loaded>>

(***************************************************************************)
(* backend/services/inference.py and backend/api/routes/inference.py.      *)
(* generate_code, debug_code and query_documents catch what the model      *)
(* raises and return a text, so a handler of predict raises only for a     *)
(* debug request without code.                                             *)
(***************************************************************************)
\* input_data of a request: a dict, or None
InputData(prompt, code) == [kind |-> "dict", prompt |-> prompt, code |-> code]

NoInput == [kind |-> "none", prompt |-> "", code |-> ""]

\* InferenceService.predict: raised when the model is not loaded, else the
\* dict it returns
predict(input_data, request_type) ==
    LET error == IF input_data.kind # "dict" THEN "'NoneType' object has no attribute 'get'"
                 ELSE IF ~Truthy(input_data.prompt) THEN "Prompt is required"
                 ELSE IF request_type = "debug" /\ ~Truthy(input_data.code)
                 THEN "Code is required for debugging"
                 ELSE ""
    IN IF ~model_loaded
       THEN [raised |-> TRUE, status |-> "", error |-> "Model not loaded",
             request_type |-> "", result |-> ""]
       ELSE IF error # ""
       THEN [raised |-> FALSE, status |-> "error", error |-> error,
             request_type |-> request_type, result |-> ""]
       ELSE [raised |-> FALSE, status |-> "success", error |-> "",
             request_type |-> request_type, result |-> input_data.prompt]

\* the except branch of batch_predict: an entry for the request that raised
BatchError(r) ==
    [raised |-> FALSE, status |-> "error", error |-> r.error, request_type |-> "",
     result |-> ""]

\* InferenceService.batch_predict with the loop cut at the first request
\* that fails
RECURSIVE batch_predict_cut(_)
batch_predict_cut(reqs) ==
    IF reqs = <<>> THEN <<>>
    ELSE LET r == predict(Head(reqs).input_data, Head(reqs).request_type)
         IN IF r.raised \/ r.status = "error" THEN <<>>
            ELSE <<r>> \o batch_predict_cut(Tail(reqs))

\* InferenceService.batch_predict
RECURSIVE batch_predict(_)
batch_predict(reqs) ==
    IF reqs = <<>> THEN <<>>
    ELSE LET r == predict(Head(reqs).input_data, Head(reqs).request_type)
         IN <<(IF r.raised THEN BatchError(r) ELSE r)>> \o batch_predict(Tail(reqs))

\* POST /predict/batch
batch_route(reqs) ==
    LET results == batch_predict(reqs)
    IN /\ loaded' = Called("batch_predict", reqs, 200, "",
                           [results |-> results,
                            total_requests |-> Len(reqs),
                            successful_requests |->
                                Len(SelectSeq(results, LAMBDA r : r.status = "success"))])
       /\ UNCHANGED <<fsVars, api_key, pc, localVars, qa_chain, resp, obs, ingested,
                      sideVars>>

\* POST /code/debug
debug_code(prompt, code) ==
    LET req == [prompt |-> prompt, code |-> code]
        r == predict(InputData(prompt, code), "debug")
    IN /\ loaded' = IF ~Truthy(code)
                    THEN Reraised("debug_code", req, "Code is required for debugging")
                    ELSE IF r.raised THEN Reraised("debug_code", req, r.error)
                    ELSE Called("debug_code", req, 200, "", r)
       /\ UNCHANGED <<fsVars, api_key, pc, localVars, qa_chain, resp, obs, ingested,
                      sideVars>>

(***************************************************************************)
(* backend/utils/middleware.py RateLimitMiddleware.  dispatch runs without *)
(* an await from reading the table to writing it, so it is one step.       *)
(***************************************************************************)
\* the requests_per_minute the middleware is constructed with
requests_per_minute == 2

\* the width of the window, in seconds
Window == 60

\* [t for t in times if t > current_time - 60]
Recent(times, current_time) == SelectSeq(times, LAMBDA t : t > current_time - Window)

\* a limit check that lets one request more through
OverLimitLate(recent_requests) == Len(recent_requests) > requests_per_minute

\* len(recent_requests) >= self.requests_per_minute
OverLimit(recent_requests) == Len(recent_requests) >= requests_per_minute

\* "Clean old entries": the addresses with a request in the window
Cleaned(current_time) ==
    [ip \in {c \in DOMAIN requests : Recent(requests[c], current_time) # <<>>} |->
        requests[ip]]

\* the table with the times of client_ip set
Recorded(table, client_ip, times) ==
    [ip \in DOMAIN table \cup {client_ip} |-> IF ip = client_ip THEN times ELSE table[ip]]

dispatch(client_ip) ==
    LET req == [client |-> client_ip, time |-> now]
        table == Cleaned(now)
        known == client_ip \in DOMAIN table
        recent_requests == IF known THEN Recent(table[client_ip], now) ELSE <<>>
    IN /\ IF known /\ OverLimit(recent_requests)
          THEN /\ requests' = table
               /\ loaded' = Called("dispatch", req, 429, "Rate limit exceeded",
                                   [retry_after |-> "60"])
               /\ UNCHANGED admitted
          ELSE /\ requests' = Recorded(table, client_ip, recent_requests \o <<now>>)
               /\ admitted' = [admitted EXCEPT ![client_ip] = Append(@, now)]
               /\ loaded' = Called("dispatch", req, 200, "", [retry_after |-> ""])
       /\ UNCHANGED <<fsVars, api_key, pc, localVars, qa_chain, resp, obs, ingested, now,
                      outside, logs, model_loaded>>

\* time passes
Tick(seconds) ==
    /\ now' = now + seconds
    /\ UNCHANGED <<fsVars, api_key, pc, localVars, qa_chain, resp, obs, loaded, ingested,
                   requests, admitted, outside, logs, model_loaded>>

(***************************************************************************)
(* Inputs and bounds.                                                      *)
(***************************************************************************)
Topics == {"alpha"}

Prompts == {"what is alpha", "sort a list"}

Queries == {"alpha news"}

\* uploaded JSON documents
UploadContents ==
    {JList(<<JDict("beta", Absent, Absent, Absent)>>),
     JList(<<JDict(Absent, "gamma", Absent, "g"), JScalar("delta")>>),
     JScalar(""),
     JMalformed}

RawFile == JScalar("raw")

\* chunks that are or will be in the collection once the builds in flight end
Planned == Len(index) + Len(todo["api1"]) + Len(todo["api2"]) + Len(todo["root"])

\* the step leaves the collection within the bound b
Fits(b) == Planned' <= b

(***************************************************************************)
(* Spec: two workers of backend/api.py and the inference service, with     *)
(* requests arriving at any time.                                          *)
(***************************************************************************)
ConcMaxIndex == 4

\* what a scrape may keep: nothing (status "error"), or page contents
ConcScrapes == {<<>>, <<"alpha is a letter", "alpha news">>}

ConcLifespan == \E p \in ApiProcs : lifespan(p) /\ Fits(ConcMaxIndex)

ConcResearch ==
    \E p \in ApiProcs, t \in Topics, r \in ConcScrapes, ok \in BOOLEAN :
        research_topic(p, t, r, ok) /\ Fits(ConcMaxIndex)

ConcQuery == \E q \in Queries, ok \in BOOLEAN : query_documents("svc", q, ok)

ConcWrite == \E p \in ApiProcs : WriteBatch(p)

ConcFail == \E p \in ApiProcs : BuildFails(p)

ConcFinish == \E p \in ApiProcs, ok \in BOOLEAN : Finish(p, ok)

Next ==
    \/ ConcLifespan
    \/ ConcResearch
    \/ ConcQuery
    \/ ConcWrite
    \/ ConcFail
    \/ ConcFinish

Spec == Init /\ [][Next]_vars

(***************************************************************************)
(* SpecSeq: one worker of backend/api.py, the inference service and the    *)
(* api.py server, with one request handled at a time.                      *)
(***************************************************************************)
MaxIndex == 2

SeqScrapes == {<<>>, <<"alpha news">>}

SeqLifespan == Quiet /\ lifespan("api1") /\ Fits(MaxIndex)

SeqRestart == Quiet /\ restart("api1")

SeqResearch ==
    /\ Quiet
    /\ \E t \in Topics, r \in SeqScrapes, ok \in BOOLEAN :
          research_topic("api1", t, r, ok) /\ Fits(MaxIndex)

SeqUpload ==
    /\ Quiet
    /\ \E n \in FileNames, c \in UploadContents :
          /\ upload_file("api1", n, IF EndsWithJson(n) THEN c ELSE RawFile)
          /\ Fits(MaxIndex)

SeqChat ==
    /\ Quiet
    /\ \E m \in Prompts, r \in SeqScrapes, ok \in BOOLEAN :
          chat_endpoint("api1", m, r, ok) /\ Fits(MaxIndex)

SeqQuery == Quiet /\ \E q \in Queries, ok \in BOOLEAN : query_documents("svc", q, ok)

SeqAsk == Quiet /\ \E q \in Queries : ask_question("root", q) /\ Fits(MaxIndex)

SeqRootChat == Quiet /\ \E q \in Queries : chat("root", q, "") /\ Fits(MaxIndex)

SeqWrite == \E p \in Procs : WriteBatch(p)

SeqFail == \E p \in Procs : BuildFails(p)

SeqFinish == \E p \in Procs, ok \in BOOLEAN : Finish(p, ok)

SeqNext ==
    \/ SeqLifespan
    \/ SeqRestart
    \/ SeqResearch
    \/ SeqUpload
    \/ SeqChat
    \/ SeqQuery
    \/ SeqAsk
    \/ SeqRootChat
    \/ SeqWrite
    \/ SeqFail
    \/ SeqFinish

SpecSeq == Init /\ [][SeqNext]_vars

(***************************************************************************)
(* SpecUpload: one worker of backend/api.py receiving uploads whose file   *)
(* names are chosen by the client.                                         *)
(***************************************************************************)
UploadNames ==
    {"up.json", "../evil.json", "/tmp/evil.txt", "sub/x.json", "../data/up.json", ""}

UploadLifespan == Quiet /\ lifespan("api1") /\ Fits(MaxIndex)

UploadAny ==
    /\ Quiet
    /\ \E n \in UploadNames, c \in UploadContents :
          /\ upload_file("api1", n, IF EndsWithJson(n) THEN c ELSE RawFile)
          /\ Fits(MaxIndex)

UploadNext ==
    \/ UploadLifespan
    \/ UploadAny
    \/ SeqWrite
    \/ SeqFail
    \/ SeqFinish

SpecUpload == Init /\ [][UploadNext]_vars

(***************************************************************************)
(* SpecRoutes: single requests to the log routes and to /code/debug over   *)
(* any content of the logs directory.                                      *)
(***************************************************************************)
MaxLogLines == 2

MaxLines == 3

LogLines == {"t1 - app - INFO - one", "raw line", ""}

LogFile(lines) == [exists |-> TRUE, lines |-> lines]

MainLogs == {NoLogFile} \cup {LogFile(c) : c \in UNION {[1..n -> LogLines] : n \in 0..MaxLogLines}}

AccessLogs == {LogFile(<<"t3 - web - INFO - get", "t4 - web - INFO - post">>)}

ErrorLogs == {NoLogFile, LogFile(<<"t2 - app - ERROR - two", "t5 - app - ERROR - five">>)}

LogStates ==
    {NoLogs} \cup
    {[exists |-> TRUE,
      files |-> [n \in DOMAIN NoLogs.files |->
                    CASE n = "tengen.log" -> m
                      [] n = "tengen_access.log" -> a
                      [] OTHER -> e]] :
        m \in MainLogs, a \in AccessLogs, e \in ErrorLogs}

LogTypes == {"all", "main", "error", "bogus"}

LogLevels == {Absent, "info"}

\* a service with any state of the logs directory; no request answered yet
RoutesBase ==
    /\ data_exists = FALSE
    /\ data = EmptyDir
    /\ db_exists = FALSE
    /\ index = <<>>
    /\ api_key = TRUE
    /\ InitHandlers
    /\ model_loaded \in BOOLEAN

RoutesInit == RoutesBase /\ loaded = NotLoaded /\ logs \in LogStates

RoutesGetLogs ==
    \E t \in LogTypes \ {"bogus"}, n \in 0..MaxLines, l \in LogLevels : get_logs(t, n, l)

RoutesDownload == \E t \in LogTypes : download_logs(t)

RoutesClear == \E t \in LogTypes : clear_logs(t)

RoutesDebug == \E m \in {"", "fix it"}, c \in {Absent, "", "x = 1"} : debug_code(m, c)

RoutesNext ==
    \/ RoutesGetLogs
    \/ RoutesDownload
    \/ RoutesClear
    \/ RoutesDebug

SpecRoutes == RoutesInit /\ [][RoutesNext]_vars

(***************************************************************************)
(* SpecBatch: batches sent to /predict/batch, with the model loaded or not.*)
(***************************************************************************)
MaxBatch == 3

BatchRequest(input_data, request_type) ==
    [input_data |-> input_data, request_type |-> request_type]

BatchRequests ==
    {BatchRequest(InputData("hello", Absent), "general"),
     BatchRequest(InputData("", Absent), "code"),
     BatchRequest(InputData("fix it", ""), "debug"),
     BatchRequest(InputData("fix that", "x = 1"), "debug"),
     BatchRequest(NoInput, "research")}

Batches == UNION {[1..n -> BatchRequests] : n \in 0..MaxBatch}

\* a batch has arrived
BatchInit ==
    /\ RoutesBase
    /\ logs = NoLogs
    /\ \E reqs \in Batches : loaded = [fn |-> "batch", reqs |-> reqs]

BatchCall == loaded.fn = "batch" /\ batch_route(loaded.reqs)

BatchNext == BatchCall

SpecBatch == BatchInit /\ [][BatchNext]_vars

(***************************************************************************)
(* SpecLimit: requests of two clients through one RateLimitMiddleware,     *)
(* with time passing in steps of half a window.                            *)
(***************************************************************************)
MaxTime == 120

TickSteps == {30}

LimitInit == RoutesBase /\ loaded = NotLoaded /\ logs = NoLogs /\ model_loaded = FALSE

LimitDispatch == \E c \in Clients : dispatch(c)

LimitTick == \E d \in TickSteps : now + d <= MaxTime /\ Tick(d)

LimitNext == LimitDispatch \/ LimitTick

SpecLimit == LimitInit /\ [][LimitNext]_vars

(***************************************************************************)
(* SpecLoad: the two loaders applied to any data directory.                *)
(***************************************************************************)
LoadContents ==
    UploadContents \cup
    {NoFile,
     JList(<<JDict("", "eps", Absent, Absent), JDict("zeta", Absent, Absent, Absent)>>),
     JDict(Absent, Absent, "eta", Absent),
     JDict(Absent, Absent, Absent, Absent),
     JScalar("7")}

LoadInit ==
    /\ data_exists \in BOOLEAN
    /\ data \in [FileNames -> LoadContents]
    /\ data_exists = FALSE => data = EmptyDir
    /\ data["notes.txt"] \in {NoFile, JMalformed}
    /\ db_exists = FALSE
    /\ index = <<>>
    /\ api_key = TRUE
    /\ InitProcs

LoadNext == CallLoad \/ CallRootLoad

SpecLoad == LoadInit /\ [][LoadNext]_vars

(***************************************************************************)
(* SpecChat: the /chat of api.py over any data directory, with payloads of *)
(* every kind but scrape requests that name a topic.                       *)
(***************************************************************************)
\* payloads: a question, no message, a debug request without and with code,
\* a code request, scrape and research requests without a topic
RootPayloads ==
    {[message |-> q, code |-> ""] : q \in Queries} \cup
    {[message |-> "", code |-> ""],
     [message |-> "debug this", code |-> ""],
     [message |-> "debug this", code |-> "x = 1"],
     [message |-> "generate a loop", code |-> ""],
     [message |-> "scrape ", code |-> ""],
     [message |-> " research", code |-> ""]}

ChatAny ==
    /\ Quiet
    /\ \E m \in RootPayloads : chat("root", m.message, m.code) /\ Fits(MaxIndex)

ChatNext ==
    \/ ChatAny
    \/ SeqWrite
    \/ SeqFail
    \/ SeqFinish

SpecChat == LoadInit /\ [][ChatNext]_vars

(***************************************************************************)
(* SpecRetrieve: queries through the chain of create_qa_chain over any     *)
(* stored collection.                                                      *)
(***************************************************************************)
MaxStored == 6

StoredChunks == {"alpha news", "news", "zeta"}

RetrieveQueries == {"alpha news", "beta"}

Stored == UNION {[1..n -> StoredChunks] : n \in 0..MaxStored}

RetrieveInit ==
    /\ data_exists = TRUE
    /\ data = EmptyDir
    /\ db_exists = TRUE
    /\ index \in Stored
    /\ api_key = TRUE
    /\ InitProcs

RetrieveQuery == \E q \in RetrieveQueries, ok \in BOOLEAN : query_documents("svc", q, ok)

RetrieveNext == RetrieveQuery

SpecRetrieve == RetrieveInit /\ [][RetrieveNext]_vars

(***************************************************************************)
(* SpecSources: queries over stored chunks shorter and longer than the     *)
(* 200 characters of a source excerpt.                                     *)
(***************************************************************************)
\* the text s written n times
RECURSIVE Repeat(_, _)
Repeat(s, n) ==
    IF n = 0 THEN ""
    ELSE LET h == Repeat(s, n \div 2)
         IN h \o h \o (IF n % 2 = 1 THEN s ELSE "")

MaxSourced == 3

SourceChunks ==
    {"alpha news", Repeat("a", 200), Repeat("a", 199) \o "bc", Repeat("z", 250)}

SourcesInit ==
    /\ data_exists = TRUE
    /\ data = EmptyDir
    /\ db_exists = TRUE
    /\ index \in UNION {[1..n -> SourceChunks] : n \in 0..MaxSourced}
    /\ api_key = TRUE
    /\ InitProcs

SourcesQuery == \E q \in Queries, ok \in BOOLEAN : query_documents("svc", q, ok)

SourcesNext == SourcesQuery

SpecSources == SourcesInit /\ [][SourcesNext]_vars

(***************************************************************************)
(* SpecSplit: split_text applied to lists of documents, short and longer   *)
(* than chunk_size, with and without spaces.                               *)
(***************************************************************************)
MaxDocs == 2

SplitTexts ==
    {"", "alpha news", " pad ",
     Repeat("x", 1000),
     Repeat("x", 950) \o Repeat("y", 100),
     Repeat("x", 1900) \o "yz",
     Repeat("a", 600) \o " " \o Repeat("b", 600)}

SplitInit ==
    /\ data_exists = TRUE
    /\ data = EmptyDir
    /\ db_exists = FALSE
    /\ index = <<>>
    /\ api_key = TRUE
    /\ InitHandlers
    /\ logs = NoLogs
    /\ model_loaded = FALSE
    /\ \E ds \in UNION {[1..n -> SplitTexts] : n \in 0..MaxDocs} :
          loaded = [fn |-> "documents", raised |-> FALSE, docs |-> ds]

\* texts = split_text(documents); chunks keeps the chunks document by document
CallSplit ==
    /\ loaded.fn = "documents"
    /\ loaded' = [fn |-> "split", raised |-> FALSE, docs |-> loaded.docs,
                  chunks |-> [i \in 1..Len(loaded.docs) |-> SplitDoc(loaded.docs[i])],
                  texts |-> split_text(loaded.docs)]
    /\ UNCHANGED <<fsVars, api_key, pc, localVars, qa_chain, resp, obs, ingested,
                   sideVars>>

SplitNext == CallSplit

SpecSplit == SplitInit /\ [][SplitNext]_vars

(***************************************************************************)
(* Properties.                                                             *)
(***************************************************************************)

\* C1: a retrieval made while exactly one build is in flight sees either the
\* index as it was before that build or the index that build produces, never
\* an index holding only some of the build's chunks.
C1_BuildIsAtomicForReaders ==
    obs.clean => obs.seen \in {obs.prior, obs.target}

\* C2: when create_vectorstore has failed, the persisted index equals the
\* index as it was when the build began.
C2_FailedBuildKeepsSnapshot ==
    \A p \in Procs : (pc[p] = "tail" /\ built[p] = "failed") => index = prior[p]

\* C3: at most one process is inside a build of the persisted index at a time.
C3_OneBuildInFlight == Cardinality(Builders) <= 1

\* C4: a retrieval made while a build is in flight is served from the index
\* as it was before that build began.
C4_QueryServedFromReadySnapshot ==
    (obs.q # "" /\ obs.clean) => obs.seen = obs.prior

\* C5: when an ingestion's build has completed, the chunks stored in the index
\* are exactly the chunks of the corpus of that ingestion.
C5_IndexEqualsCorpus ==
    \A p \in Procs :
        (pc[p] = "tail" /\ built[p] = "ok") => Range(index) = Range(texts[p])

\* C6: ingesting a corpus into an index that holds exactly one ingestion of
\* that same corpus leaves the ordered retrieval result of every query as it
\* was after the first ingestion.
C6_IngestionIdempotent ==
    \A p \in Procs :
        (pc[p] = "tail" /\ built[p] = "ok" /\ prior[p] = texts[p]) =>
            \A q \in Queries \cup {"beta", "gamma"} :
                Retrieve(index, q) = Retrieve(prior[p], q)

\* C7: query_documents answered while the index holds nothing gives the
\* "No documents available" answer with no sources.
C7_NoIndexAnswer ==
    (resp.op = "query" /\ index = <<>>) =>
        (resp.answer = "nodocs" /\ resp.sources = <<>>)

\* C8: when /ask or the question branch of /chat of api.py has come back from
\* create_vectorstore, the persisted index is as it was when the query began.
C8_QueryLeavesIndexUnchanged ==
    \A p \in Procs :
        (pc[p] = "tail" /\ op[p] \in {"ask", "root_chat"}) => index = prior[p]

WellFormed(j) == j.kind \in {"list", "dict", "scalar"}

\* C10: a loader called on a data directory that holds a malformed file does
\* not raise and returns every document of every well-formed file.
C10_LoaderSkipsMalformed ==
    (loaded.fn # "" /\ \E n \in JsonNames : data[n] = JMalformed) =>
        /\ ~loaded.raised
        /\ \A n \in JsonNames :
              WellFormed(data[n]) => Range(FileDocs(data[n])) \subseteq Range(loaded.docs)

\* C11: for an object record the backend loader yields the value of the first
\* of 'content', 'text', 'body' that is present, a present but empty value
\* included, and the stringified object only when none of the three is present.
C11_FirstPresentField ==
    loaded.fn = "backend" =>
        \A n \in JsonNames :
            LET j == data[n]
                recs == IF j.kind = "list" THEN j.items
                        ELSE IF j.kind = "dict" THEN <<j>> ELSE <<>>
                FirstPresent(r) ==
                    IF r.content # Absent THEN r.content
                    ELSE IF r.text # Absent THEN r.text
                    ELSE IF r.body # Absent THEN r.body
                    ELSE Str(r)
            IN \A i \in 1..Len(recs) :
                   recs[i].kind = "dict" => FirstPresent(recs[i]) \in Range(loaded.docs)

\* C12: on a data directory without malformed files a loader does not raise
\* and returns one document per record, in file enumeration order and in
\* record order within a file: the i-th document is taken from the i-th
\* record; an empty or absent directory gives the empty list.
C12_OneDocumentPerRecordInOrder ==
    (loaded.fn \in {"backend", "root"} /\ \A n \in JsonNames : data[n] # JMalformed) =>
        LET names == SelectSeq(ListDir(data), EndsWithJson)
            recs(j) == IF j.kind = "list" THEN j.items ELSE <<j>>
            cat[k \in 0..Len(names)] ==
                IF k = 0 THEN <<>> ELSE cat[k - 1] \o recs(data[names[k]])
            R == cat[Len(names)]
            Values(r) == IF r.kind = "dict"
                         THEN {r.content, r.text, r.body, Str(r)} \ {Absent}
                         ELSE {Str(r)}
        IN /\ ~loaded.raised
           /\ Len(loaded.docs) = Len(R)
           /\ \A i \in 1..Len(R) : loaded.docs[i] \in Values(R[i])

\* C13: an ingestion whose create_vectorstore was called with no chunks (and
\* returned None without touching the index) does not report success.
C13_EmptyBuildReportsFailure ==
    (resp.op \in {"upload", "research"} /\ resp.built = "empty") =>
        resp.status \notin {"processed", "completed"}

\* C14: an ingestion request (/research, /files/upload) whose
\* create_vectorstore failed does not answer 'completed' or 'processed'.
C14_FailedBuildIsReported ==
    (resp.op \in {"upload", "research"} /\ resp.built = "failed") =>
        resp.status \notin {"processed", "completed"}

\* C15: /ask of api.py answers 404 when its loader yields no documents.
C15_AskWithoutDataIs404 ==
    LET r == root_load_documents(data_exists, data)
    IN (resp.op = "ask" /\ ~r.raised /\ r.docs = <<>>) => resp.code = 404

\* C16: when generation fails in a query whose retrieval found chunks, the
\* result either still carries the retrieved chunks as sources or is an error
\* (not a normal return, code 200) of query_documents.
C16_GenerationFailureKeepsSources ==
    (resp.op = "query" /\ resp.answer = "error" /\ obs.docs # <<>>) =>
        (resp.sources = Excerpts(obs.docs) \/ resp.code # 200)

\* C20: no worker of backend/api.py is up and accepting requests while
\* GOOGLE_API_KEY is missing.
C20_NoServiceWithoutKey ==
    \A p \in ApiProcs : pc[p] # "down" => api_key

\* C17: on a successful query the sources of query_documents are, one for one
\* and in rank order, the retrieved chunks: entry i starts with the first 200
\* characters of chunk i (the whole chunk when it is shorter) and has nothing
\* after them but the "..." mark.
C17_SourcesMatchRetrieved ==
    (resp.op = "query" /\ resp.answer = "generated") =>
        /\ Len(resp.sources) = Len(obs.docs)
        /\ \A i \in 1..Len(obs.docs) :
              LET c == obs.docs[i]
                  n == IF Len(c) < 200 THEN Len(c) ELSE 200
              IN /\ SubSeq(resp.sources[i], 1, n) = SubSeq(c, 1, n)
                 /\ Len(resp.sources[i]) = n + 3

\* C17 witness: a successful query returned several sources, one of them for
\* a chunk longer than 200 characters and one for a shorter chunk.
C17_Witness ==
    /\ resp.op = "query" /\ resp.answer = "generated"
    /\ Len(resp.sources) >= 2
    /\ \E i \in 1..Len(obs.docs) : Len(obs.docs[i]) > 200
    /\ \E i \in 1..Len(obs.docs) : Len(obs.docs[i]) < 200

\* C18: every chunk of split_text is at most chunk_size long, each chunk of
\* a document begins with the last chunk_overlap characters of the chunk
\* before it (all of a shorter final chunk), and a document no longer than
\* chunk_size gives exactly one chunk, the full text.
C18_ChunkSizeAndOverlap ==
    loaded.fn = "split" =>
        \A d \in 1..Len(loaded.docs) :
            LET cs == loaded.chunks[d]
                t == loaded.docs[d]
            IN /\ \A i \in 1..Len(cs) : Len(cs[i]) <= chunk_size
               /\ \A i \in 1..(Len(cs) - 1) :
                     LET o == IF Len(cs[i + 1]) < chunk_overlap
                              THEN Len(cs[i + 1]) ELSE chunk_overlap
                     IN SubSeq(cs[i], Len(cs[i]) - o + 1, Len(cs[i]))
                          = SubSeq(cs[i + 1], 1, o)
               /\ Len(t) <= chunk_size => cs = <<t>>

\* C19: the chunks of a document, joined in order with the chunk_overlap
\* characters that begin every chunk after the first left out, are the text
\* of the document.
C19_ChunkingLossless ==
    loaded.fn = "split" =>
        \A d \in 1..Len(loaded.docs) :
            LET cs == loaded.chunks[d]
                join[i \in 0..Len(cs)] ==
                    IF i = 0 THEN ""
                    ELSE IF i = 1 THEN cs[1]
                    ELSE join[i - 1] \o SubSeq(cs[i], chunk_overlap + 1, Len(cs[i]))
            IN join[Len(cs)] = loaded.docs[d]

\* C21: once a worker of backend/api.py has ingested successfully (a build of
\* its own has ended well since it started), it reports a ready QA chain
\* whenever it is idle, whatever ingestions and queries came after.
C21_ReadyStaysAvailable ==
    \A p \in ApiProcs : (ingested[p] /\ api_key /\ pc[p] = "idle") => qa_chain[p]

\* C22: the response of a successful ingestion (/research or /files/upload
\* whose build ended well) carries a count equal to the number of documents
\* the loader produces for the data directory.
C22_CountEqualsLoaded ==
    (resp.op \in {"research", "upload"} /\ resp.built = "ok" /\ resp.code = 200) =>
        resp.count = Len(load_documents(TRUE, data))

\* C23: after /files/upload has answered "processed" for a JSON file whose
\* documents were built into the index, the worker's QA chain is set.
C23_ProcessedUploadSetsChain ==
    (resp.op = "upload" /\ resp.status = "processed" /\ resp.built = "ok" /\ api_key) =>
        qa_chain["api1"]

\* C24: a /chat prompt answered through the QA chain is a research query; a
\* prompt with none of the research keywords is answered by generate_code.
C24_OnlyResearchThroughChain ==
    (resp.op = "chat" /\ obs.q # "") => is_research_query(obs.q)

\* C25: a validation failure of the /chat of api.py (no message, a debug
\* message without code, a scrape or research message without a topic) is
\* answered with status 400.
C25_RootChatValidationIs400 ==
    (resp.op = "root_chat" /\ resp.answer \in {"Message is required.",
                                               "Code is required for debugging.",
                                               "Please specify a topic to scrape."}) =>
        resp.code = 400

\* C30: whatever file name the client sends, /files/upload writes only
\* files of the data directory.
C30_UploadStaysInData ==
    outside = {}

\* C26: the backend routes keep the status of a client error: /code/debug
\* without code and an unknown log_type are answered 400, /logs/download
\* of a missing log file 404.
C26_ClientErrorsKeepStatus ==
    /\ (loaded.fn \in {"download_logs", "clear_logs", "debug_code"} /\
        loaded.detail \in {"Invalid log type", "Code is required for debugging"}) =>
           loaded.code = 400
    /\ (loaded.fn = "download_logs" /\ loaded.detail = "Log file not found") =>
           loaded.code = 404

\* C27: GET /logs returns at most `lines` entries, and what it returns from
\* a single file are the last entries of that file.
C27_AtMostLinesEntries ==
    loaded.fn = "get_logs" =>
        /\ Len(loaded.body) <= loaded.req.lines
        /\ LogFileOf(loaded.req.log_type) # "" =>
               LET all == LogEntries(logs.files[LogFileOf(loaded.req.log_type)].lines,
                                     loaded.req.level)
               IN \E k \in 0..Len(all) : loaded.body = SliceFrom(all, k)

\* C29: batch_predict returns one result per request, in the order of the
\* requests: the i-th result has status "error" exactly when the i-th
\* request fails (model not loaded, no input, no prompt, debug without
\* code), a result that succeeded carries the type and the prompt of its
\* request, and the route never counts more successes than requests.
C29_OneResultPerRequest ==
    loaded.fn = "batch_predict" =>
        LET reqs == loaded.req
            results == loaded.body.results
            fails(r) == \/ ~model_loaded
                        \/ r.input_data.kind # "dict"
                        \/ r.input_data.prompt = ""
                        \/ (r.request_type = "debug" /\ r.input_data.code \in {"", Absent})
        IN /\ Len(results) = Len(reqs)
           /\ \A i \in 1..Len(reqs) :
                 IF fails(reqs[i]) THEN results[i].status = "error"
                 ELSE /\ results[i].status = "success"
                      /\ results[i].request_type = reqs[i].request_type
                      /\ results[i].result = reqs[i].input_data.prompt
           /\ loaded.body.total_requests = Len(reqs)
           /\ loaded.body.successful_requests <= loaded.body.total_requests

\* a batch whose first request failed and whose second request succeeded
C29_Witness ==
    /\ loaded.fn = "batch_predict"
    /\ Len(loaded.req) >= 2
    /\ loaded.body.results[1].status = "error"
    /\ loaded.body.results[2].status = "success"
    /\ loaded.body.successful_requests < loaded.body.total_requests

\* the requests of client c that were passed on in the window ending at t
AdmittedIn(c, t) == SelectSeq(admitted[c], LAMBDA x : t - Window < x /\ x <= t)

\* C28: for every client and every window of 60 seconds, the middleware has
\* passed on at most requests_per_minute requests of that client; the table
\* holds the requests passed on and no others, so a rejected request counts
\* in no window; and a rejected request is answered 429 with Retry-After 60
\* when the client has used up the window, and is not passed on.
C28_RateLimitPerWindow ==
    /\ \A c \in Clients : \A t \in 0..now :
           Len(AdmittedIn(c, t)) <= requests_per_minute
    /\ \A c \in Clients :
           (IF c \in DOMAIN requests THEN Recent(requests[c], now) ELSE <<>>)
               = AdmittedIn(c, now)
    /\ (loaded.fn = "dispatch" /\ loaded.code = 429) =>
           /\ loaded.body.retry_after = "60"
           /\ Len(AdmittedIn(loaded.req.client, loaded.req.time)) = requests_per_minute
    /\ (loaded.fn = "dispatch" /\ loaded.code = 200) =>
           loaded.req.time \in Range(admitted[loaded.req.client])

\* a client that was passed on more often than the limit, as the window
\* moved on, is rejected
C28_Witness ==
    /\ loaded.fn = "dispatch"
    /\ loaded.code = 429
    /\ Len(admitted[loaded.req.client]) > requests_per_minute

=============================================================================
